---- MODULE Spec2Model ----
(***************************************************************************)
(* bhyve command generation (src/bhyve/bhyve_command.c).                   *)
(*                                                                         *)
(* The hypervisor command builder virBhyveProcessBuildBhyveCmd is a state  *)
(* machine: one action per validation step or per-device formatter call,   *)
(* the command under construction (cmd) as state, the domain definition    *)
(* (def) as the mutable object the formatters write back into, and the     *)
(* host's tap interfaces and display ports as the shared resources the     *)
(* formatters allocate.  The loader builder virBhyveProcessBuildLoadCmd    *)
(* is a second state machine over the same definition.                     *)
(***************************************************************************)
EXTENDS Integers, Sequences, FiniteSets, TLC

\* ------------------------------------------------------------------ bounds

\* Builds run one after the other on the same definition object.
MaxBuilds == 2
\* Longest device list (controllers, NICs, disks, sounds) of a definition.
MaxDevs == 2
\* Tap interfaces the host can hold.
MaxTaps == 4
\* Ports of the display-port pool.
MaxPorts == 2

\* ------------------------------------------------------- program constants

NULL == "<NULL>"
VNC_PORT_MIN == 5900
VNC_PORT_MAX == 65535
KIB_PER_MIB == 1024
\* UINT_MAX, clipped to the largest integer TLC represents: above every boot
\* index of the model, which is all the code uses it for.
UINT_MAX == 2147483647
VIR_ERR_CONFIG_UNSUPPORTED == "VIR_ERR_CONFIG_UNSUPPORTED"
VIR_ERR_INTERNAL_ERROR == "VIR_ERR_INTERNAL_ERROR"
VIR_NET_GENERATED_TAP_PREFIX == "vnet"
BHYVE == "/usr/sbin/bhyve"
BHYVELOAD == "/usr/sbin/bhyveload"

AllCaps == {"NET_E1000", "AHCI32SLOT", "CPUTOPOLOGY", "RTC_UTC",
            "LPC_BOOTROM", "FBUF", "SOUND_HDA"}

\* ------------------------------------------------------------ C strings

\* The spelling of every interface name the model uses, one character per
\* element, so that STRPREFIX and strchr are computed and not assumed.
Spell(s) ==
    CASE s = "vnet"   -> <<"v", "n", "e", "t">>
      [] s = "vnet%d" -> <<"v", "n", "e", "t", "%", "d">>
      [] s = "vnet0"  -> <<"v", "n", "e", "t", "0">>
      [] s = "vnet1"  -> <<"v", "n", "e", "t", "1">>
      [] s = "vnet2"  -> <<"v", "n", "e", "t", "2">>
      [] s = "vnet3"  -> <<"v", "n", "e", "t", "3">>
      [] s = "vnet4"  -> <<"v", "n", "e", "t", "4">>
      [] s = "vnet5"  -> <<"v", "n", "e", "t", "5">>
      [] s = "vnet6"  -> <<"v", "n", "e", "t", "6">>
      [] s = "vnet7"  -> <<"v", "n", "e", "t", "7">>
      [] s = "mytap0" -> <<"m", "y", "t", "a", "p", "0">>
      [] s = "net%d"  -> <<"n", "e", "t", "%", "d">>
      [] s = "tap0"   -> <<"t", "a", "p", "0">>
      [] s = "127.0.0.1" -> <<"1", "2", "7", ".", "0", ".", "0", ".", "1">>
      [] s = "::1"    -> <<":", ":", "1">>
      [] s = "grub-bhyve" ->
           <<"g", "r", "u", "b", "-", "b", "h", "y", "v", "e">>
      [] s = "/sbin/grub-bhyve" ->
           <<"/", "s", "b", "i", "n", "/",
             "g", "r", "u", "b", "-", "b", "h", "y", "v", "e">>
      [] s = "/sbin/loader" ->
           <<"/", "s", "b", "i", "n", "/", "l", "o", "a", "d", "e", "r">>
      [] s = "-m 256 vm0" ->
           <<"-", "m", " ", "2", "5", "6", " ", "v", "m", "0">>
      [] s = "-r  cd" -> <<"-", "r", " ", " ", "c", "d">>
      [] s = "vm0"    -> <<"v", "m", "0">>

STRPREFIX(s, p) ==
    LET a == Spell(s)
        b == Spell(p)
    IN  /\ Len(a) >= Len(b)
        /\ \A k \in 1..Len(b) : a[k] = b[k]

strchr(s, c) == \E k \in 1..Len(Spell(s)) : Spell(s)[k] = c

\* strstr(s, p) != NULL
strstr(s, p) ==
    LET a == Spell(s)
        b == Spell(p)
    IN  \E k \in 0..(Len(a) - Len(b)) : \A j \in 1..Len(b) : a[k + j] = b[j]

\* virStringSplit(s, " ", 0) from character k on, cur being the token read
\* so far: every space ends a token, an empty one too.
RECURSIVE SplitFrom(_, _, _)
SplitFrom(chars, k, cur) ==
    IF k > Len(chars)
    THEN <<cur>>
    ELSE IF chars[k] = " "
    THEN <<cur>> \o SplitFrom(chars, k + 1, "")
    ELSE SplitFrom(chars, k + 1, cur \o chars[k])

virStringSplit(s) == SplitFrom(Spell(s), 1, "")

\* g_strdup(VIR_NET_GENERATED_TAP_PREFIX "%d")
GeneratedTapPattern == "vnet%d"

\* The name the kernel gives the n-th generated interface, and the n-th tap
\* device.
VnetName(n) ==
    CASE n = 0 -> "vnet0" [] n = 1 -> "vnet1" [] n = 2 -> "vnet2"
      [] n = 3 -> "vnet3" [] n = 4 -> "vnet4" [] n = 5 -> "vnet5"
      [] n = 6 -> "vnet6" [] n = 7 -> "vnet7"

TapDevName(n) ==
    CASE n = 0 -> "tap0" [] n = 1 -> "tap1" [] n = 2 -> "tap2"
      [] n = 3 -> "tap3" [] n = 4 -> "tap4" [] n = 5 -> "tap5"
      [] n = 6 -> "tap6" [] n = 7 -> "tap7"

VIR_DIV_UP(value, size) == (value + size - 1) \div size

\* ------------------------------------------------------------- arguments

\* One argument of a virCommand: the group of the command line it belongs
\* to, the index of the device it was formatted for (0: none), the format
\* string, and the integers and strings formatted into it.
Arg(grp, dev, fmt, n, s) ==
    [grp |-> grp, dev |-> dev, fmt |-> fmt, n |-> n, s |-> s, sub |-> <<>>]

Flag(grp, dev, fmt) == Arg(grp, dev, fmt, <<>>, <<>>)

\* An argument formatted from a virBuffer: sub holds the buffer's pieces in
\* the order they were appended, each piece an Arg of its own.
BufArg(grp, dev, fmt, n, buf) ==
    [grp |-> grp, dev |-> dev, fmt |-> fmt, n |-> n, s |-> <<>>, sub |-> buf]

NoError == [code |-> "", msg |-> ""]
Error(code, msg) == [code |-> code, msg |-> msg]

\* ------------------------------------------------- the domain definition

Lists(kinds) == UNION {[1..n -> kinds] : n \in 0..MaxDevs}

Controller(type, model, idx, slot, function) ==
    [type |-> type, model |-> model, idx |-> idx,
     slot |-> slot, function |-> function]

PciRoot   == Controller("pci", "pci-root", 0, 0, 0)
PciBridge == Controller("pci", "pci-bridge", 1, 1, 0)
Isa       == Controller("isa", "", 0, 1, 0)
Sata0     == Controller("sata", "", 0, 2, 0)
Sata1     == Controller("sata", "", 1, 3, 0)
Usb       == Controller("usb", "", 0, 4, 0)

ControllerKinds == {PciRoot, PciBridge, Isa, Sata0, Sata1, Usb}

Input(bus, type) == [bus |-> bus, type |-> type]

InputLists ==
    { <<>>,
      <<Input("usb", "tablet")>>,
      <<Input("usb", "tablet"), Input("usb", "tablet")>>,
      <<Input("usb", "mouse")>>,
      <<Input("ps2", "tablet")>> }

Net(model, type, ifname, slot, function) ==
    [model |-> model, type |-> type, bridge |-> "virbr0", ifname |-> ifname,
     mac |-> "52:54:00:00:00:01", slot |-> slot, function |-> function]

NetKinds ==
    { Net("virtio", "bridge", NULL, 5, 0),
      Net("e1000", "bridge", "mytap0", 6, 0),
      Net("virtio", "bridge", "net%d", 5, 1),
      Net("rtl8139", "bridge", NULL, 6, 0),
      Net("virtio", "user", NULL, 6, 0) }

Disk(bus, device, type, src, controller, slot, bootIndex) ==
    [bus |-> bus, device |-> device, type |-> type, src |-> src,
     \* whether virDomainDiskTranslateSourcePool succeeds on the disk
     pool_ok |-> ~(type = "volume" /\ src = NULL),
     controller |-> controller, slot |-> slot, bootIndex |-> bootIndex]

DiskKinds ==
    { Disk("sata", "disk", "file", "/img/hd0.img", 0, 0, 0),
      Disk("sata", "cdrom", "volume", "/img/cd0.iso", 0, 0, 0),
      Disk("sata", "disk", "block", "/dev/da0", 0, 0, 0),
      Disk("sata", "disk", "network", "rbd:img", 1, 0, 0),
      Disk("sata", "disk", "file", "/img/hd1.img", 1, 0, 0),
      Disk("sata", "cdrom", "file", NULL, 0, 0, 0),
      Disk("sata", "floppy", "file", "/img/fd0.img", 0, 0, 0),
      Disk("sata", "disk", "volume", NULL, 1, 0, 0),
      Disk("virtio", "disk", "file", "/img/vd0.img", 0, 7, 0),
      Disk("virtio", "cdrom", "file", "/img/vcd.iso", 0, 7, 0),
      Disk("virtio", "disk", "block", "/dev/da1", 0, 6, 0),
      Disk("ide", "disk", "file", "/img/ide.img", 0, 0, 0) }

Listen(type, address) == [type |-> type, address |-> address]

Graphics(type, listens, autoport, port, passwd) ==
    [type |-> type, listens |-> listens, autoport |-> autoport,
     port |-> port, passwd |-> passwd]

GraphicsLists ==
    { <<>>,
      <<Graphics("vnc", <<Listen("address", "127.0.0.1")>>, FALSE, 5900, NULL)>>,
      <<Graphics("vnc", <<Listen("address", "::1")>>, TRUE, -1, NULL)>>,
      <<Graphics("vnc", <<Listen("network", NULL)>>, TRUE, 0, NULL)>>,
      <<Graphics("vnc", <<Listen("address", "127.0.0.1")>>, FALSE, 100, NULL)>>,
      <<Graphics("vnc", <<Listen("address", "127.0.0.1")>>, FALSE, 5901, "secret")>>,
      <<Graphics("spice", <<Listen("address", "127.0.0.1")>>, FALSE, 5900, NULL)>>,
      <<Graphics("vnc", <<Listen("socket", NULL)>>, FALSE, 5900, NULL)>>,
      <<Graphics("vnc", <<Listen("none", NULL)>>, FALSE, 5900, NULL)>>,
      <<Graphics("vnc", <<>>, FALSE, 5900, NULL)>>,
      <<Graphics("vnc", <<Listen("address", "127.0.0.1")>>, FALSE, 5900, NULL),
        Graphics("vnc", <<Listen("address", "127.0.0.1")>>, FALSE, 5901, NULL)>> }

Video(slot, function, res, x, y, vgaconf) ==
    [slot |-> slot, function |-> function,
     res |-> res, x |-> x, y |-> y, vgaconf |-> vgaconf]

VideoLists ==
    { <<>>,
      <<Video(8, 0, FALSE, 0, 0, NULL)>>,
      <<Video(8, 1, TRUE, 1024, 768, "io")>>,
      <<Video(8, 0, FALSE, 0, 0, NULL), Video(8, 1, FALSE, 0, 0, NULL)>> }

\* A sound device with the audio backend virDomainDefFindAudioForSound
\* finds for it (audio = NULL: none).
Sound(model, slot, function, audio, inputDev, outputDev) ==
    [model |-> model, slot |-> slot, function |-> function, audio |-> audio,
     inputDev |-> inputDev, outputDev |-> outputDev]

SoundKinds ==
    { Sound("ich7", 9, 0, NULL, NULL, NULL),
      Sound("ich7", 9, 1, "oss", "/dev/dsp0", "/dev/dsp1"),
      Sound("ac97", 10, 0, NULL, NULL, NULL),
      Sound("ich7", 10, 0, "last", NULL, NULL) }

Serial(type, port, path) == [type |-> type, port |-> port, path |-> path]

SerialLists ==
    { <<>>,
      <<Serial("nmdm", 0, "/dev/nmdm0A")>>,
      <<Serial("nmdm", 1, "/dev/nmdm1A")>>,
      <<Serial("nmdm", 2, "/dev/nmdm2A")>>,
      <<Serial("nmdm", 3, "/dev/nmdm3A")>>,
      <<Serial("pty", 0, NULL)>>,
      <<Serial("nmdm", 1, "/dev/nmdm1A"), Serial("pty", 5, NULL)>> }

Cpu(sockets, cores, threads, dies) ==
    [sockets |-> sockets, cores |-> cores, threads |-> threads, dies |-> dies]

\* No topology (def->cpu->sockets is 0), a matching one, one whose product
\* is not the vCPU count, one with two dies.
CpuKinds == {Cpu(0, 0, 0, 0), Cpu(1, 2, 1, 1), Cpu(1, 1, 1, 1),
             Cpu(2, 1, 1, 1), Cpu(1, 2, 1, 2), Cpu(1, 1, 1, 2)}

ClockKinds == {"localtime", "utc", "variable"}

Boot(bootloader, loader) == [bootloader |-> bootloader, loader |-> loader]

BootKinds ==
    { Boot(NULL, NULL),
      Boot(NULL, "/usr/local/share/uefi-firmware/BHYVE_UEFI.fd"),
      Boot("/sbin/grub-bhyve", NULL),
      Boot("/sbin/grub-bhyve",
           "/usr/local/share/uefi-firmware/BHYVE_UEFI.fd") }

\* A guest booted through UEFI firmware with one device of every category,
\* each at an address of its own.
Base ==
    [name |-> "vm0",
     vcpus |-> 2,
     cpu |-> Cpu(0, 0, 0, 0),
     mem |-> 262145,
     locked |-> FALSE,
     acpi |-> TRUE, apic |-> TRUE, msrs |-> FALSE, msrs_ignore |-> FALSE,
     clock |-> "localtime",
     bootloader |-> NULL,
     bootloaderArgs |-> NULL,
     loader |-> "/usr/local/share/uefi-firmware/BHYVE_UEFI.fd",
     bootDevs |-> <<>>,
     controllers |-> <<Sata0>>,
     inputs |-> <<>>,
     nets |-> <<Net("virtio", "bridge", NULL, 5, 0)>>,
     disks |-> <<Disk("sata", "disk", "file", "/img/hd0.img", 0, 0, 0)>>,
     graphics |-> <<Graphics("vnc", <<Listen("address", "127.0.0.1")>>,
                             TRUE, -1, NULL)>>,
     videos |-> <<Video(8, 0, FALSE, 0, 0, NULL)>>,
     sounds |-> <<Sound("ich7", 9, 0, NULL, NULL, NULL)>>,
     serials |-> <<Serial("nmdm", 0, "/dev/nmdm0A")>>,
     nsargs |-> <<>>]

Scenario(d, c) == [def |-> d, caps |-> c]

\* CPU topology and clock, against the capabilities that gate them.
FrontScenarios ==
    { Scenario([Base EXCEPT !.cpu = c, !.clock = k], AllCaps \ x) :
        c \in CpuKinds, k \in ClockKinds,
        x \in SUBSET {"CPUTOPOLOGY", "RTC_UTC"} }

FeatureScenarios ==
    { Scenario([Base EXCEPT !.locked = f[1], !.acpi = f[2], !.apic = f[3],
                            !.msrs = f[4], !.msrs_ignore = f[5],
                            !.nsargs = a],
               AllCaps) :
        f \in [1..5 -> BOOLEAN], a \in {<<>>, <<"-W">>, <<"-e", "k=v">>} }

\* Every list of controllers with the one tablet a USB controller needs, and
\* a USB controller with every list of input devices.
ControllerScenarios ==
    { Scenario([Base EXCEPT !.controllers = c,
                            !.inputs = <<Input("usb", "tablet")>>], AllCaps) :
        c \in Lists(ControllerKinds) }
    \cup
    { Scenario([Base EXCEPT !.controllers = c, !.inputs = n], AllCaps) :
        c \in {<<Usb>>, <<Sata0, Usb>>, <<Isa, Usb>>}, n \in InputLists }

NetScenarios ==
    { Scenario([Base EXCEPT !.nets = n], AllCaps \ x) :
        n \in Lists(NetKinds), x \in SUBSET {"NET_E1000"} }

\* SATA disks of supported and unsupported backing on controllers that are
\* configured or not.
SataDiskKinds ==
    { d \in DiskKinds :
        /\ d.bus = "sata"
        /\ d.device = "disk"
        /\ d.type # "file" \/ d.src \in {"/img/hd0.img", "/img/hd1.img"} }

\* The disks of every bus and device kind on the one controller of Base.
BusDiskKinds ==
    { d \in DiskKinds :
        d.bus # "sata" \/ (d.controller = 0 /\ d.type # "block") }

DiskScenarios ==
    { Scenario([Base EXCEPT !.controllers = c, !.disks = d], AllCaps) :
        c \in {<<>>, <<Sata0>>, <<Sata0, Sata1>>},
        d \in Lists(SataDiskKinds) }
    \cup
    { Scenario([Base EXCEPT !.disks = d], AllCaps) :
        d \in Lists(BusDiskKinds) }
    \cup
    { Scenario([Base EXCEPT !.disks = d], AllCaps \ {"AHCI32SLOT"}) :
        d \in Lists({k \in BusDiskKinds : k.bus = "sata" /\ k.src # NULL}) }

\* Graphics and video devices against the boot mode and the capabilities
\* graphics need.
GraphicsScenarios ==
    { Scenario([Base EXCEPT !.graphics = g, !.videos = v,
                            !.bootloader = b.bootloader, !.loader = b.loader],
               AllCaps \ x) :
        g \in GraphicsLists, v \in VideoLists, b \in BootKinds,
        x \in {{}, {"LPC_BOOTROM"}, {"FBUF"}} }

SoundScenarios ==
    { Scenario([Base EXCEPT !.sounds = s], AllCaps \ x) :
        s \in Lists(SoundKinds), x \in SUBSET {"SOUND_HDA"} }
    \cup
    { Scenario([Base EXCEPT !.serials = c], AllCaps) : c \in SerialLists }

Scenarios ==
    FrontScenarios \cup FeatureScenarios \cup ControllerScenarios
        \cup NetScenarios \cup DiskScenarios \cup GraphicsScenarios
        \cup SoundScenarios

\* ------------------------------------------------------------------ state

VARIABLES
    def,              \* virDomainDefPtr def: the definition the builds run on
    caps,             \* bhyveDriverGetBhyveCaps(driver)
    pc,               \* where virBhyveProcessBuildBhyveCmd is
    idx,              \* its loop variable i, 1-based
    cmd,              \* the command under construction
    dryRun,           \* the build's dryRun parameter
    nusbcontrollers,  \* its locals counting USB and ISA controllers
    nisacontrollers,
    err,              \* the last error virReportError recorded
    ret,              \* what the build returned
    prev,             \* what the build before it returned
    nbuilds,          \* builds started so far
    steps,            \* the build's validation steps and formatter calls
    hostlog,          \* the build's calls into the tap and port subsystems
    taps,             \* the host's tap interfaces
    ports,            \* the ports taken from the display-port pool
    grubcaps,         \* bhyveDriverGetGrubCaps(driver)
    load              \* what virBhyveProcessBuildLoadCmd returned

vars == <<def, caps, pc, idx, cmd, dryRun, nusbcontrollers, nisacontrollers,
          err, ret, prev, nbuilds, steps, hostlog, taps, ports, grubcaps,
          load>>

HasCap(c, cap) == cap \in c

\* What a formatter hands back: its return code, the command as it left it
\* and the error it reported.
Ok(c) == [rc |-> 0, cmd |-> c, err |-> NoError]
Fail(c, code, msg) == [rc |-> -1, cmd |-> c, err |-> Error(code, msg)]

Step(op, dev, rc) == [op |-> op, dev |-> dev, rc |-> rc]
HostCall(op, dev, rc, name, port) ==
    [op |-> op, dev |-> dev, rc |-> rc, name |-> name, port |-> port]

\* ------------------------------------------------------ host collaborators

IfNames(t) == {x.ifname : x \in t}
DevNames(t) == {x.dev : x \in t}

FirstFreeIfIndex(used) ==
    CHOOSE n \in 0..Cardinality(used) :
        /\ VnetName(n) \notin used
        /\ \A m \in 0..(n - 1) : VnetName(m) \in used

FirstFreeTapDev(used) ==
    CHOOSE n \in 0..Cardinality(used) :
        /\ TapDevName(n) \notin used
        /\ \A m \in 0..(n - 1) : TapDevName(m) \in used

\* createTap(bridge, vmIdentity, desiredNamePattern) -> (ifname, err): a
\* pattern with %d becomes the first free name; the tap is attached to a new
\* tap device.  works: whether the host lets the call succeed.
virNetDevTapCreateInBridgePort(ifname, t, works) ==
    LET name == IF strchr(ifname, "%")
                THEN VnetName(FirstFreeIfIndex(IfNames(t)))
                ELSE ifname
        dev == TapDevName(FirstFreeTapDev(DevNames(t)))
    IN  IF works /\ Cardinality(t) < MaxTaps /\ name \notin IfNames(t)
        THEN [rc |-> 0, ifname |-> name,
              taps |-> t \cup {[ifname |-> name, dev |-> dev]}]
        ELSE [rc |-> -1, ifname |-> ifname, taps |-> t]

\* resolveRealName(ifname) -> (name, err)
virNetDevTapGetRealDeviceName(ifname, t, works) ==
    IF works /\ ifname \in IfNames(t)
    THEN (CHOOSE x \in t : x.ifname = ifname).dev
    ELSE NULL

\* setInterfaceUp(ifname) -> err
virNetDevSetOnline(ifname, t, works) ==
    IF works /\ ifname \in IfNames(t) THEN 0 ELSE -1

PoolPorts == VNC_PORT_MIN..(VNC_PORT_MIN + MaxPorts - 1)

\* acquirePort(pool) -> (port, err): the lowest free port of the pool.
virPortAllocatorAcquire(p, works) ==
    IF works /\ PoolPorts \ p # {}
    THEN LET port == CHOOSE x \in PoolPorts \ p :
                         \A y \in PoolPorts \ p : x <= y
         IN  [rc |-> 0, port |-> port, ports |-> p \cup {port}]
    ELSE [rc |-> -1, port |-> 0, ports |-> p]

\* markPortUsed(pool, port) -> err
virPortAllocatorSetUsed(port, p, works) ==
    IF works /\ port >= 0 /\ port <= VNC_PORT_MAX
    THEN [rc |-> 0, ports |-> p \cup {port}]
    ELSE [rc |-> -1, ports |-> p]

\* ------------------------------------------------------------- formatters

\* What the host calls of a NIC leave behind: the names, the taps of the
\* host and the calls made.
Provisioned(rc, ifname, realifname, t, log, e) ==
    [rc |-> rc, ifname |-> ifname, realifname |-> realifname, taps |-> t,
     hostlog |-> log, err |-> e]

\* A tap that is taken as set up whatever virNetDevSetOnline returned.
TapOnlineUnchecked(tap, realifname, online, dev, log) ==
    Provisioned(0, tap.ifname, realifname, tap.taps,
                Append(log, HostCall("setInterfaceUp", dev, online,
                                     tap.ifname, 0)),
                NoError)

\* lines 106-111, online being what virNetDevSetOnline returned
TapOnline(tap, realifname, online, dev, log) ==
    IF online # 0
    THEN Provisioned(-1, tap.ifname, realifname, tap.taps,
                     Append(log, HostCall("setInterfaceUp", dev, online,
                                          tap.ifname, 0)),
                     Error("host", "virNetDevSetOnline"))
    ELSE Provisioned(0, tap.ifname, realifname, tap.taps,
                     Append(log, HostCall("setInterfaceUp", dev, online,
                                          tap.ifname, 0)),
                     NoError)

\* lines 97-111, realifname being what virNetDevTapGetRealDeviceName returned
TapResolved(tap, realifname, dev, log, fails) ==
    IF realifname = NULL
    THEN Provisioned(-1, tap.ifname, realifname, tap.taps,
                     Append(log, HostCall("resolveRealName", dev, -1,
                                          realifname, 0)),
                     Error("host", "virNetDevTapGetRealDeviceName"))
    ELSE TapOnline(tap, realifname,
                   virNetDevSetOnline(tap.ifname, tap.taps, fails # 3), dev,
                   Append(log, HostCall("resolveRealName", dev, 0,
                                        realifname, 0)))

\* lines 90-111, tap being what virNetDevTapCreateInBridgePort returned
TapCreated(tap, dev, fails) ==
    IF tap.rc < 0
    THEN Provisioned(-1, tap.ifname, NULL, tap.taps,
                     <<HostCall("createTap", dev, tap.rc, tap.ifname, 0)>>,
                     Error("host", "virNetDevTapCreateInBridgePort"))
    ELSE TapResolved(tap,
                     virNetDevTapGetRealDeviceName(tap.ifname, tap.taps,
                                                   fails # 2),
                     dev,
                     <<HostCall("createTap", dev, tap.rc, tap.ifname, 0)>>,
                     fails)

\* Lines 90-111, the host calls of a NIC: create the tap in the bridge,
\* resolve its real name, set it up.  fails: which of the three the host
\* makes fail (0: none).
TapProvision(ifname, dev, t, fails) ==
    TapCreated(virNetDevTapCreateInBridgePort(ifname, t, fails # 1), dev,
               fails)

\* A NIC formatter that provisions the tap in a dry run too.
NetProvisionAlways(ifname, dev, dry, t, fails) ==
    TapProvision(ifname, dev, t, fails)

\* Lines 89-114: the host calls unless dryRun, the placeholder name if so.
NetProvision(ifname, dev, dry, t, fails) ==
    IF ~dry
    THEN TapProvision(ifname, dev, t, fails)
    ELSE Provisioned(0, ifname, "tap0", t, <<>>, NoError)

\* What the formatter returns: net is the NIC as the formatter leaves it.
NetResult(rc, c, e, net, t, log) ==
    [rc |-> rc, cmd |-> c, err |-> e, net |-> net, taps |-> t,
     hostlog |-> log]

\* lines 116-128, host being what the host calls left behind: the argument,
\* or the cleanup label with ret < 0 and its VIR_FREE(net->ifname)
NetEmit(net, dev, c, nic_model, host) ==
    IF host.rc < 0
    THEN NetResult(-1, c, host.err, [net EXCEPT !.ifname = NULL], host.taps,
                   host.hostlog)
    ELSE NetResult(0,
                   c \o <<Flag("nic", dev, "-s"),
                          Arg("nic", dev, "%d:0,%s,%s,mac=%s", <<net.slot>>,
                              <<nic_model, host.realifname, net.mac>>)>>,
                   NoError, [net EXCEPT !.ifname = host.ifname], host.taps,
                   host.hostlog)

\* lines 82-87
NetIfName(net) ==
    IF \/ net.ifname = NULL
       \/ STRPREFIX(net.ifname, VIR_NET_GENERATED_TAP_PREFIX)
       \/ strchr(net.ifname, "%")
    THEN GeneratedTapPattern
    ELSE net.ifname

bhyveBuildNetArgStr(net, dev, c, cps, dry, t, fails) ==
    IF net.model = "e1000" /\ ~HasCap(cps, "NET_E1000")
    THEN NetResult(-1, c,
                   Error(VIR_ERR_CONFIG_UNSUPPORTED,
                         "NIC model 'e1000' is not supported by given bhyve binary"),
                   net, t, <<>>)
    ELSE IF net.model \notin {"virtio", "e1000"}
    THEN NetResult(-1, c,
                   Error(VIR_ERR_CONFIG_UNSUPPORTED,
                         "NIC model is not supported"),
                   net, t, <<>>)
    ELSE IF net.type # "bridge"
    THEN NetResult(-1, c,
                   Error(VIR_ERR_CONFIG_UNSUPPORTED,
                         "Network type is not supported"),
                   [net EXCEPT !.ifname = NULL], t, <<>>)
    ELSE NetEmit(net, dev, c,
                 IF net.model = "virtio" THEN "virtio-net" ELSE "e1000",
                 NetProvision(NetIfName(net), dev, dry, t, fails))

bhyveBuildConsoleArgStr(d, c) ==
    IF Len(d.serials) = 0
    THEN Ok(c)
    ELSE LET chr == d.serials[1]
         IN  IF chr.type # "nmdm"
             THEN Fail(c, VIR_ERR_CONFIG_UNSUPPORTED,
                       "only nmdm console types are supported")
             ELSE IF chr.port > 2
             THEN Fail(c, VIR_ERR_CONFIG_UNSUPPORTED,
                       "only two serial ports are supported")
             ELSE Ok(c \o <<Flag("console", 1, "-l"),
                            Arg("console", 1, "com%d,%s", <<chr.port + 1>>,
                                <<chr.path>>)>>)

\* The disk loop of bhyveBuildAHCIControllerArgStr from disk k on, buf being
\* the buffer so far.
RECURSIVE AHCIDisks(_, _, _, _, _)
AHCIDisks(d, controller, cps, k, buf) ==
    IF k > Len(d.disks)
    THEN [rc |-> 0, buf |-> buf, err |-> NoError]
    ELSE LET disk == d.disks[k]
             disk_source == disk.src
             wide == HasCap(cps, "AHCI32SLOT")
             piece(fmt) == Arg("disk", k, fmt, <<>>, <<disk_source>>)
             fail(code, msg) ==
                 [rc |-> -1, buf |-> buf, err |-> Error(code, msg)]
         IN  IF disk.bus # "sata"
             THEN AHCIDisks(d, controller, cps, k + 1, buf)
             ELSE IF disk.controller # controller.idx
             THEN AHCIDisks(d, controller, cps, k + 1, buf)
             ELSE IF disk.type # "file" /\ disk.type # "volume"
             THEN fail(VIR_ERR_CONFIG_UNSUPPORTED, "unsupported disk type")
             ELSE IF ~disk.pool_ok
             THEN fail("storage", "virDomainDiskTranslateSourcePool")
             ELSE IF disk.device = "cdrom" /\ disk_source = NULL
             THEN fail(VIR_ERR_CONFIG_UNSUPPORTED,
                       "cdrom device without source path not supported")
             ELSE IF disk.device = "disk"
             THEN AHCIDisks(d, controller, cps, k + 1,
                            Append(buf, piece(IF wide THEN ",hd:%s"
                                                      ELSE "-hd,%s")))
             ELSE IF disk.device = "cdrom"
             THEN AHCIDisks(d, controller, cps, k + 1,
                            Append(buf, piece(IF wide THEN ",cd:%s"
                                                      ELSE "-cd,%s")))
             ELSE fail(VIR_ERR_CONFIG_UNSUPPORTED, "unsupported disk device")

\* An AHCI formatter that starts the controller's argument before it has
\* looked at the disks.
bhyveBuildAHCIControllerArgStrEmitFirst(d, controller, dev, cps, c) ==
    LET r == AHCIDisks(d, controller, cps, 1, <<>>)
        started == Append(c, Flag("controller", dev, "-s"))
    IN  IF r.rc < 0
        THEN [rc |-> -1, cmd |-> started, err |-> r.err]
        ELSE Ok(started \o <<BufArg("controller", dev, "%d:0,ahci%s",
                                     <<controller.slot>>, r.buf)>>)

bhyveBuildAHCIControllerArgStr(d, controller, dev, cps, c) ==
    LET r == AHCIDisks(d, controller, cps, 1, <<>>)
    IN  IF r.rc < 0
        THEN [rc |-> -1, cmd |-> c, err |-> r.err]
        ELSE Ok(c \o <<Flag("controller", dev, "-s"),
                       BufArg("controller", dev, "%d:0,ahci%s",
                              <<controller.slot>>, r.buf)>>)

\* The input loop of bhyveBuildUSBControllerArgStr from input k on.
RECURSIVE USBInputs(_, _, _)
USBInputs(d, k, ndevices) ==
    IF k > Len(d.inputs)
    THEN [rc |-> 0, ndevices |-> ndevices, err |-> NoError]
    ELSE IF d.inputs[k].bus # "usb"
    THEN [rc |-> -1, ndevices |-> ndevices,
          err |-> Error(VIR_ERR_CONFIG_UNSUPPORTED,
                        "only USB input devices are supported")]
    ELSE IF d.inputs[k].type # "tablet"
    THEN [rc |-> -1, ndevices |-> ndevices,
          err |-> Error(VIR_ERR_CONFIG_UNSUPPORTED,
                        "only tablet input devices are supported")]
    ELSE USBInputs(d, k + 1, ndevices + 1)

\* A USB controller formatter that asks for at least one tablet.
bhyveBuildUSBControllerArgStrAnyTablets(d, controller, dev, c) ==
    LET r == USBInputs(d, 1, 0)
    IN  IF r.rc < 0
        THEN [rc |-> -1, cmd |-> c, err |-> r.err]
        ELSE IF r.ndevices < 1
        THEN Fail(c, VIR_ERR_CONFIG_UNSUPPORTED,
                  "only single input device is supported")
        ELSE Ok(c \o <<Flag("controller", dev, "-s"),
                       Arg("controller", dev, "%d:%d,xhci,tablet",
                           <<controller.slot, controller.function>>, <<>>)>>)

bhyveBuildUSBControllerArgStr(d, controller, dev, c) ==
    LET r == USBInputs(d, 1, 0)
    IN  IF r.rc < 0
        THEN [rc |-> -1, cmd |-> c, err |-> r.err]
        ELSE IF r.ndevices # 1
        THEN Fail(c, VIR_ERR_CONFIG_UNSUPPORTED,
                  "only single input device is supported")
        ELSE Ok(c \o <<Flag("controller", dev, "-s"),
                       Arg("controller", dev, "%d:%d,xhci,tablet",
                           <<controller.slot, controller.function>>, <<>>)>>)

bhyveBuildVirtIODiskArgStr(disk, dev, c) ==
    IF ~disk.pool_ok
    THEN Fail(c, "storage", "virDomainDiskTranslateSourcePool")
    ELSE IF disk.device # "disk"
    THEN Fail(c, VIR_ERR_CONFIG_UNSUPPORTED, "unsupported disk device")
    ELSE IF disk.type # "file" /\ disk.type # "volume"
    THEN Fail(c, VIR_ERR_CONFIG_UNSUPPORTED, "unsupported disk type")
    ELSE Ok(c \o <<Flag("disk", dev, "-s"),
                   Arg("disk", dev, "%d:0,virtio-blk,%s", <<disk.slot>>,
                       <<disk.src>>)>>)

\* A disk dispatcher that takes virtio disks for handled elsewhere too.
bhyveBuildDiskArgStrSkippingVirtio(disk, dev, c) ==
    CASE disk.bus = "sata" -> Ok(c)
      [] disk.bus = "virtio" -> Ok(c)
      [] OTHER -> Fail(c, VIR_ERR_CONFIG_UNSUPPORTED, "unsupported disk device")

bhyveBuildDiskArgStr(disk, dev, c) ==
    CASE disk.bus = "sata" -> Ok(c)
      [] disk.bus = "virtio" -> bhyveBuildVirtIODiskArgStr(disk, dev, c)
      [] OTHER -> Fail(c, VIR_ERR_CONFIG_UNSUPPORTED, "unsupported disk device")

bhyveBuildControllerArgStr(d, controller, dev, cps, c, nusb, nisa) ==
    LET out(r, u, s) == [rc |-> r.rc, cmd |-> r.cmd, err |-> r.err,
                         nusb |-> u, nisa |-> s]
    IN  CASE controller.type = "pci" ->
               IF controller.model # "pci-root"
               THEN out(Fail(c, VIR_ERR_CONFIG_UNSUPPORTED,
                             "unsupported PCI controller model: only PCI root supported"),
                        nusb, nisa)
               ELSE out(Ok(c), nusb, nisa)
          [] controller.type = "sata" ->
               out(bhyveBuildAHCIControllerArgStr(d, controller, dev, cps, c),
                   nusb, nisa)
          [] controller.type = "usb" ->
               IF nusb + 1 > 1
               THEN out(Fail(c, VIR_ERR_CONFIG_UNSUPPORTED,
                             "only single USB controller is supported"),
                        nusb + 1, nisa)
               ELSE out(bhyveBuildUSBControllerArgStr(d, controller, dev, c),
                        nusb + 1, nisa)
          [] controller.type = "isa" ->
               IF nisa + 1 > 1
               THEN out(Fail(c, VIR_ERR_CONFIG_UNSUPPORTED,
                             "only single ISA controller is supported"),
                        nusb, nisa + 1)
               ELSE out(Ok(c \o <<Flag("controller", dev, "-s"),
                                  Arg("controller", dev, "%d:0,lpc",
                                      <<controller.slot>>, <<>>)>>),
                        nusb, nisa + 1)
          [] OTHER -> out(Ok(c), nusb, nisa)

\* A guard that only asks for a loader, whoever boots the guest.
NotBootedWithUEFILoaderOnly(d, cps) ==
    d.loader = NULL

\* lines 385-387: the condition under which graphics are refused
NotBootedWithUEFI(d, cps) ==
    \/ ~HasCap(cps, "LPC_BOOTROM")
    \/ d.bootloader # NULL
    \/ d.loader = NULL

bhyveBuildGraphicsArgStr(d, graphics, video, cps, c, dry, p, fails) ==
    LET out(r, g, pp, log) ==
            [rc |-> r.rc, cmd |-> r.cmd, err |-> r.err,
             graphics |-> g, ports |-> pp, hostlog |-> log]
        stop(code, msg) == out(Fail(c, code, msg), graphics, p, <<>>)
        glisten == graphics.listens[1]
        piece(fmt, n, s) == Arg("graphics", 1, fmt, n, s)
        fbuf == <<piece("%d:%d,fbuf", <<video.slot, video.function>>, <<>>),
                  piece(",tcp=", <<>>, <<>>)>>
        addr == IF glisten.address = NULL
                THEN <<>>
                ELSE IF strchr(glisten.address, ":")
                THEN <<piece("[%s]", <<>>, <<glisten.address>>)>>
                ELSE <<piece("%s", <<>>, <<glisten.address>>)>>
        got == virPortAllocatorAcquire(p, fails # 1)
        used == virPortAllocatorSetUsed(graphics.port, p, fails # 1)
        \* lines 446-456
        port == IF ~dry /\ graphics.autoport THEN got.port ELSE graphics.port
        pool == IF dry THEN p
                ELSE IF graphics.autoport THEN got.ports ELSE used.ports
        log == IF dry THEN <<>>
               ELSE IF graphics.autoport
               THEN <<HostCall("acquirePort", 1, got.rc, NULL, got.port)>>
               ELSE <<HostCall("markPortUsed", 1, used.rc, NULL,
                               graphics.port)>>
        tail == <<piece(":%d", <<port>>, <<>>)>>
                \o (IF video.res
                    THEN <<piece(",w=%d,h=%d", <<video.x, video.y>>, <<>>)>>
                    ELSE <<>>)
                \o (IF video.vgaconf # NULL
                    THEN <<piece(",vga=%s", <<>>, <<video.vgaconf>>)>>
                    ELSE <<>>)
    IN  IF NotBootedWithUEFI(d, cps)
        THEN stop(VIR_ERR_CONFIG_UNSUPPORTED,
                  "Graphics are only supported when booting using UEFI")
        ELSE IF ~HasCap(cps, "FBUF")
        THEN stop(VIR_ERR_CONFIG_UNSUPPORTED,
                  "Bhyve version does not support framebuffer")
        ELSE IF graphics.type # "vnc"
        THEN stop(VIR_ERR_CONFIG_UNSUPPORTED, "Only VNC supported")
        ELSE IF Len(graphics.listens) = 0
        THEN stop(VIR_ERR_INTERNAL_ERROR, "Missing listen element")
        ELSE IF glisten.type \in {"socket", "none"}
        THEN stop(VIR_ERR_CONFIG_UNSUPPORTED, "Unsupported listen type")
        ELSE IF glisten.type \notin {"address", "network"}
        THEN stop(VIR_ERR_INTERNAL_ERROR, "virReportEnumRangeError")
        ELSE IF /\ ~graphics.autoport
                /\ (graphics.port < VNC_PORT_MIN \/ graphics.port > VNC_PORT_MAX)
        THEN stop(VIR_ERR_CONFIG_UNSUPPORTED,
                  "vnc port must be in range [5900,65535]")
        ELSE IF graphics.passwd # NULL
        THEN stop(VIR_ERR_CONFIG_UNSUPPORTED,
                  "vnc password auth not supported")
        ELSE IF ~dry /\ graphics.autoport /\ got.rc < 0
        THEN out(Fail(c, "host", "virPortAllocatorAcquire"), graphics, pool, log)
        ELSE out(Ok(c \o <<Flag("graphics", 1, "-s"),
                           BufArg("graphics", 1, "%s", <<>>,
                                  fbuf \o addr \o tail)>>),
                 [graphics EXCEPT !.port = port], pool, log)

bhyveBuildSoundArgStr(sound, dev, cps, c) ==
    LET started == Append(c, Flag("sound", dev, "-s"))
        params == (IF sound.audio = "oss" /\ sound.inputDev # NULL
                   THEN <<Arg("sound", dev, ",play=%s", <<>>,
                              <<sound.inputDev>>)>>
                   ELSE <<>>)
                  \o (IF sound.audio = "oss" /\ sound.outputDev # NULL
                      THEN <<Arg("sound", dev, ",rec=%s", <<>>,
                                 <<sound.outputDev>>)>>
                      ELSE <<>>)
    IN  IF ~HasCap(cps, "SOUND_HDA")
        THEN Fail(c, VIR_ERR_CONFIG_UNSUPPORTED,
                  "Sound devices emulation is not supported by given bhyve binary")
        ELSE IF sound.model # "ich7"
        THEN Fail(c, VIR_ERR_CONFIG_UNSUPPORTED,
                  "Sound device model is not supported")
        ELSE IF sound.audio \notin {NULL, "oss"}
        THEN Fail(started, VIR_ERR_CONFIG_UNSUPPORTED,
                  "unsupported audio backend")
        ELSE Ok(Append(started,
                       BufArg("sound", dev, "%d:%d,hda%s",
                              <<sound.slot, sound.function>>, params)))

\* ------------------------------------- virBhyveProcessBuildBhyveCmd: steps

\* A CPU step that does not compare the topology with the vCPU count.
BuildCpuUncheckedProduct(d, cps, c) ==
    LET nvcpus == d.vcpus
        flagged == Append(c, Flag("cpu", 0, "-c"))
    IN  IF d.cpu.sockets # 0
        THEN IF d.cpu.dies # 1
             THEN Fail(flagged, VIR_ERR_CONFIG_UNSUPPORTED,
                       "Only 1 die per socket is supported")
             ELSE IF HasCap(cps, "CPUTOPOLOGY")
             THEN Ok(Append(flagged,
                            Arg("cpu", 0, "cpus=%d,sockets=%d,cores=%d,threads=%d",
                                <<nvcpus, d.cpu.sockets, d.cpu.cores,
                                  d.cpu.threads>>, <<>>)))
             ELSE Fail(flagged, VIR_ERR_CONFIG_UNSUPPORTED,
                       "Installed bhyve binary does not support defining CPU topology")
        ELSE Ok(Append(flagged, Arg("cpu", 0, "%d", <<nvcpus>>, <<>>)))

\* lines 557-587
BuildCpu(d, cps, c) ==
    LET nvcpus == d.vcpus
        flagged == Append(c, Flag("cpu", 0, "-c"))
    IN  IF d.cpu.sockets # 0
        THEN IF d.cpu.dies # 1
             THEN Fail(flagged, VIR_ERR_CONFIG_UNSUPPORTED,
                       "Only 1 die per socket is supported")
             ELSE IF nvcpus # d.cpu.sockets * d.cpu.cores * d.cpu.threads
             THEN Fail(flagged, VIR_ERR_CONFIG_UNSUPPORTED,
                       "Invalid CPU topology: total number of vCPUs must equal the product of sockets, cores, and threads")
             ELSE IF HasCap(cps, "CPUTOPOLOGY")
             THEN Ok(Append(flagged,
                            Arg("cpu", 0, "cpus=%d,sockets=%d,cores=%d,threads=%d",
                                <<nvcpus, d.cpu.sockets, d.cpu.cores,
                                  d.cpu.threads>>, <<>>)))
             ELSE Fail(flagged, VIR_ERR_CONFIG_UNSUPPORTED,
                       "Installed bhyve binary does not support defining CPU topology")
        ELSE Ok(Append(flagged, Arg("cpu", 0, "%d", <<nvcpus>>, <<>>)))

\* lines 589-605
BuildMemory(d, c) ==
    c \o <<Flag("memory", 0, "-m"),
           Arg("memory", 0, "%llu", <<VIR_DIV_UP(d.mem, KIB_PER_MIB)>>, <<>>)>>
      \o (IF d.locked THEN <<Flag("memory", 0, "-S")>> ELSE <<>>)
      \o (IF d.acpi THEN <<Flag("features", 0, "-A")>> ELSE <<>>)
      \o (IF d.apic THEN <<Flag("features", 0, "-I")>> ELSE <<>>)
      \o (IF d.msrs /\ d.msrs_ignore
          THEN <<Flag("features", 0, "-w")>> ELSE <<>>)

\* A clock step that leaves -u out when the binary cannot take it.
BuildClockOmittingUtc(d, cps, c) ==
    CASE d.clock = "localtime" -> Ok(c)
      [] d.clock = "utc" ->
           IF HasCap(cps, "RTC_UTC")
           THEN Ok(Append(c, Flag("clock", 0, "-u")))
           ELSE Ok(c)
      [] OTHER -> Fail(c, VIR_ERR_CONFIG_UNSUPPORTED,
                       "unsupported clock offset")

\* lines 607-626
BuildClock(d, cps, c) ==
    CASE d.clock = "localtime" -> Ok(c)
      [] d.clock = "utc" ->
           IF HasCap(cps, "RTC_UTC")
           THEN Ok(Append(c, Flag("clock", 0, "-u")))
           ELSE Fail(c, VIR_ERR_CONFIG_UNSUPPORTED,
                     "Installed bhyve binary does not support UTC clock")
      [] OTHER -> Fail(c, VIR_ERR_CONFIG_UNSUPPORTED,
                       "unsupported clock offset")

\* lines 639-642
BuildFixed(c) ==
    c \o <<Flag("exit", 0, "-H"), Flag("exit", 0, "-P"),
           Flag("hostbridge", 0, "-s"), Flag("hostbridge", 0, "0:0,hostbridge")>>

\* lines 644-655
BuildBootrom(d, cps, c) ==
    IF d.bootloader = NULL /\ d.loader # NULL
    THEN IF HasCap(cps, "LPC_BOOTROM")
         THEN Ok(c \o <<Flag("bootrom", 0, "-l"),
                        Arg("bootrom", 0, "bootrom,%s", <<>>, <<d.loader>>)>>)
         ELSE Fail(c, VIR_ERR_CONFIG_UNSUPPORTED,
                   "Installed bhyve binary does not support UEFI loader")
    ELSE Ok(c)

\* A tail that appends the VM name before the pass-through arguments.
BuildTailNameFirst(d, c) ==
    c \o <<Flag("name", 0, d.name)>>
      \o [k \in 1..Len(d.nsargs) |-> Flag("raw", k, d.nsargs[k])]

\* lines 694-706
BuildTail(d, c) ==
    c \o [k \in 1..Len(d.nsargs) |-> Flag("raw", k, d.nsargs[k])]
      \o <<Flag("name", 0, d.name)>>

\* ----------------------------------- virBhyveProcessBuildBhyveCmd: control

\* The device loops of lines 657-692 in their order; the graphics block and
\* the console formatter run once each.
PhaseOrder == <<"controllers", "nets", "disks", "graphics", "sounds", "console">>

PhaseLen(d, phase) ==
    CASE phase = "controllers" -> Len(d.controllers)
      [] phase = "nets" -> Len(d.nets)
      [] phase = "disks" -> Len(d.disks)
      [] phase = "sounds" -> Len(d.sounds)
      [] OTHER -> 1

\* The first loop from the q-th on whose condition i < n holds at i = 0.
RECURSIVE Enter(_, _)
Enter(d, q) ==
    IF q > Len(PhaseOrder)
    THEN [pc |-> "finish", idx |-> 0]
    ELSE IF PhaseLen(d, PhaseOrder[q]) >= 1
    THEN [pc |-> PhaseOrder[q], idx |-> 1]
    ELSE Enter(d, q + 1)

\* Where control goes after iteration k of the q-th loop returned 0.
Advance(d, q, k) ==
    IF k < PhaseLen(d, PhaseOrder[q])
    THEN [pc |-> PhaseOrder[q], idx |-> k + 1]
    ELSE Enter(d, q + 1)

NoReturn == [ok |-> FALSE, args |-> <<>>]
NoPrev == [valid |-> FALSE, dry |-> FALSE, ok |-> FALSE, args |-> <<>>]
NoLoad == [done |-> FALSE, ok |-> FALSE, path |-> NULL, args |-> <<>>,
           disk |-> 0, devmap |-> <<>>, err |-> NoError, wantmap |-> FALSE]

\* A step whose return code is not looked at.
GotoIgnoringFailure(r, op, dev, next) ==
    /\ cmd' = r.cmd
    /\ steps' = Append(steps, Step(op, dev, r.rc))
    /\ err' = IF r.rc < 0 THEN r.err ELSE err
    /\ pc' = next.pc
    /\ idx' = next.idx

\* A step that returned r: on failure control goes to the error label.
Goto(r, op, dev, next) ==
    /\ cmd' = r.cmd
    /\ steps' = Append(steps, Step(op, dev, r.rc))
    /\ err' = IF r.rc < 0 THEN r.err ELSE err
    /\ pc' = IF r.rc < 0 THEN "error" ELSE next.pc
    /\ idx' = IF r.rc < 0 THEN idx ELSE next.idx

Init ==
    /\ \E sc \in Scenarios : def = sc.def /\ caps = sc.caps
    /\ pc = "idle"
    /\ idx = 0
    /\ cmd = <<>>
    /\ dryRun = FALSE
    /\ nusbcontrollers = 0
    /\ nisacontrollers = 0
    /\ err = NoError
    /\ ret = NoReturn
    /\ prev = NoPrev
    /\ nbuilds = 0
    /\ steps = <<>>
    /\ hostlog = <<>>
    /\ taps = {}
    /\ ports = {}
    /\ grubcaps = {"CONSDEV"}
    /\ load = NoLoad

\* A build whose controller counters outlive the build before it.
StartBuildKeepingCounters ==
    /\ pc \in {"idle", "done"}
    /\ nbuilds < MaxBuilds
    /\ \E dry \in BOOLEAN : dryRun' = dry
    /\ nbuilds' = nbuilds + 1
    /\ prev' = IF pc = "done"
               THEN [valid |-> TRUE, dry |-> dryRun, ok |-> ret.ok,
                     args |-> ret.args]
               ELSE prev
    /\ ret' = NoReturn
    /\ cmd' = <<>>
    /\ UNCHANGED <<nusbcontrollers, nisacontrollers>>
    /\ err' = NoError
    /\ steps' = <<>>
    /\ hostlog' = <<>>
    /\ pc' = "cpu"
    /\ idx' = 0
    /\ UNCHANGED <<def, caps, taps, ports, grubcaps,
                   load>>

\* The caller invokes virBhyveProcessBuildBhyveCmd(driver, def, dry).
StartBuild ==
    /\ pc \in {"idle", "done"}
    /\ nbuilds < MaxBuilds
    /\ \E dry \in BOOLEAN : dryRun' = dry
    /\ nbuilds' = nbuilds + 1
    /\ prev' = IF pc = "done"
               THEN [valid |-> TRUE, dry |-> dryRun, ok |-> ret.ok,
                     args |-> ret.args]
               ELSE prev
    /\ ret' = NoReturn
    /\ cmd' = <<>>
    /\ nusbcontrollers' = 0
    /\ nisacontrollers' = 0
    /\ err' = NoError
    /\ steps' = <<>>
    /\ hostlog' = <<>>
    /\ pc' = "cpu"
    /\ idx' = 0
    /\ UNCHANGED <<def, caps, taps, ports, grubcaps,
                   load>>

CpuStep ==
    /\ pc = "cpu"
    /\ Goto(BuildCpu(def, caps, cmd), "cpu", 0, [pc |-> "memory", idx |-> 0])
    /\ UNCHANGED <<def, caps, dryRun, nusbcontrollers, nisacontrollers, ret,
                   prev, nbuilds, hostlog, taps, ports, grubcaps,
                   load>>

MemoryStep ==
    /\ pc = "memory"
    /\ cmd' = BuildMemory(def, cmd)
    /\ pc' = "clock"
    /\ UNCHANGED <<def, caps, idx, dryRun, nusbcontrollers, nisacontrollers,
                   err, ret, prev, nbuilds, steps, hostlog, taps, ports, grubcaps,
                   load>>

ClockStep ==
    /\ pc = "clock"
    /\ Goto(BuildClock(def, caps, cmd), "clock", 0, [pc |-> "fixed", idx |-> 0])
    /\ UNCHANGED <<def, caps, dryRun, nusbcontrollers, nisacontrollers, ret,
                   prev, nbuilds, hostlog, taps, ports, grubcaps,
                   load>>

FixedStep ==
    /\ pc = "fixed"
    /\ cmd' = BuildFixed(cmd)
    /\ pc' = "bootrom"
    /\ UNCHANGED <<def, caps, idx, dryRun, nusbcontrollers, nisacontrollers,
                   err, ret, prev, nbuilds, steps, hostlog, taps, ports, grubcaps,
                   load>>

BootromStep ==
    /\ pc = "bootrom"
    /\ Goto(BuildBootrom(def, caps, cmd), "bootrom", 0, Enter(def, 1))
    /\ UNCHANGED <<def, caps, dryRun, nusbcontrollers, nisacontrollers, ret,
                   prev, nbuilds, hostlog, taps, ports, grubcaps,
                   load>>

ControllerStep ==
    /\ pc = "controllers"
    /\ LET r == bhyveBuildControllerArgStr(def, def.controllers[idx], idx, caps,
                                           cmd, nusbcontrollers, nisacontrollers)
       IN  /\ Goto(r, "controller", idx, Advance(def, 1, idx))
           /\ nusbcontrollers' = r.nusb
           /\ nisacontrollers' = r.nisa
    /\ UNCHANGED <<def, caps, dryRun, ret, prev, nbuilds, hostlog, taps, ports,
                   grubcaps, load>>

NetStep ==
    /\ pc = "nets"
    /\ \E fails \in 0..3 :
         LET r == bhyveBuildNetArgStr(def.nets[idx], idx, cmd, caps, dryRun,
                                      taps, fails)
         IN  /\ Goto(r, "net", idx, Advance(def, 2, idx))
             /\ def' = [def EXCEPT !.nets[idx] = r.net]
             /\ taps' = r.taps
             /\ hostlog' = hostlog \o r.hostlog
    /\ UNCHANGED <<caps, dryRun, nusbcontrollers, nisacontrollers, ret, prev,
                   nbuilds, ports, grubcaps, load>>

DiskStep ==
    /\ pc = "disks"
    /\ Goto(bhyveBuildDiskArgStr(def.disks[idx], idx, cmd), "disk", idx,
            Advance(def, 3, idx))
    /\ UNCHANGED <<def, caps, dryRun, nusbcontrollers, nisacontrollers, ret,
                   prev, nbuilds, hostlog, taps, ports, grubcaps,
                   load>>

\* lines 672-682
GraphicsStep ==
    /\ pc = "graphics"
    /\ IF Len(def.graphics) # 0 /\ Len(def.videos) # 0
       THEN IF Len(def.graphics) = 1 /\ Len(def.videos) = 1
            THEN \E fails \in 0..1 :
                   LET r == bhyveBuildGraphicsArgStr(def, def.graphics[1],
                                                     def.videos[1], caps, cmd,
                                                     dryRun, ports, fails)
                   IN  /\ Goto(r, "graphics", 1, Advance(def, 4, 1))
                       /\ def' = [def EXCEPT !.graphics[1] = r.graphics]
                       /\ ports' = r.ports
                       /\ hostlog' = hostlog \o r.hostlog
            ELSE /\ Goto(Fail(cmd, VIR_ERR_CONFIG_UNSUPPORTED,
                              "Multiple graphics devices are not supported"),
                         "multigraphics", 0, Advance(def, 4, 1))
                 /\ UNCHANGED <<def, ports, hostlog>>
       ELSE /\ pc' = Advance(def, 4, 1).pc
            /\ idx' = Advance(def, 4, 1).idx
            /\ UNCHANGED <<def, cmd, steps, err, ports, hostlog>>
    /\ UNCHANGED <<caps, dryRun, nusbcontrollers, nisacontrollers, ret, prev,
                   nbuilds, taps, grubcaps, load>>

SoundStep ==
    /\ pc = "sounds"
    /\ Goto(bhyveBuildSoundArgStr(def.sounds[idx], idx, caps, cmd), "sound",
            idx, Advance(def, 5, idx))
    /\ UNCHANGED <<def, caps, dryRun, nusbcontrollers, nisacontrollers, ret,
                   prev, nbuilds, hostlog, taps, ports, grubcaps,
                   load>>

ConsoleStep ==
    /\ pc = "console"
    /\ Goto(bhyveBuildConsoleArgStr(def, cmd), "console", 1,
            Advance(def, 6, 1))
    /\ UNCHANGED <<def, caps, dryRun, nusbcontrollers, nisacontrollers, ret,
                   prev, nbuilds, hostlog, taps, ports, grubcaps,
                   load>>

\* lines 694-708: return cmd
Finish ==
    /\ pc = "finish"
    /\ cmd' = BuildTail(def, cmd)
    /\ ret' = [ok |-> TRUE, args |-> cmd']
    /\ pc' = "done"
    /\ UNCHANGED <<def, caps, idx, dryRun, nusbcontrollers, nisacontrollers,
                   err, prev, nbuilds, steps, hostlog, taps, ports, grubcaps,
                   load>>

\* An error exit that destroys the taps the build created.
ErrorExitWithRollback ==
    /\ pc = "error"
    /\ cmd' = <<>>
    /\ ret' = NoReturn
    /\ pc' = "done"
    /\ taps' = {x \in taps :
                  \A k \in 1..Len(hostlog) :
                      ~(hostlog[k].op = "createTap" /\ hostlog[k].rc = 0
                        /\ hostlog[k].name = x.ifname)}
    /\ UNCHANGED <<def, caps, idx, dryRun, nusbcontrollers, nisacontrollers,
                   err, prev, nbuilds, steps, hostlog, ports, grubcaps, load>>

\* lines 710-712: virCommandFree(cmd); return NULL
ErrorExit ==
    /\ pc = "error"
    /\ cmd' = <<>>
    /\ ret' = NoReturn
    /\ pc' = "done"
    /\ UNCHANGED <<def, caps, idx, dryRun, nusbcontrollers, nisacontrollers,
                   err, prev, nbuilds, steps, hostlog, taps, ports, grubcaps,
                   load>>

Next ==
    \/ StartBuild
    \/ CpuStep
    \/ MemoryStep
    \/ ClockStep
    \/ FixedStep
    \/ BootromStep
    \/ ControllerStep
    \/ NetStep
    \/ DiskStep
    \/ GraphicsStep
    \/ SoundStep
    \/ ConsoleStep
    \/ Finish
    \/ ErrorExit

Spec == Init /\ [][Next]_vars

\* ------------------------------------------- virBhyveProcessBuildLoadCmd

LoadArg(fmt, n, s) == Arg("load", 0, fmt, n, s)

\* What a loader builder hands back: the command (ok, path, args) or NULL,
\* the boot disk it selected (its index in def->disks, 0: none), the device
\* map it wrote to *devicesmap_out, and the error it reported.
LoadCmd(path, args, disk, devmap) ==
    [done |-> TRUE, ok |-> TRUE, path |-> path, args |-> args, disk |-> disk,
     devmap |-> devmap, err |-> NoError]
LoadFail(devmap, e) ==
    [done |-> TRUE, ok |-> FALSE, path |-> NULL, args |-> <<>>, disk |-> 0,
     devmap |-> devmap, err |-> e]

\* An argument splitter that takes a run of spaces for one separator.
virAppendBootloaderArgsNoEmpty(d) ==
    LET blargs == SelectSeq(virStringSplit(d.bootloaderArgs),
                            LAMBDA tok : tok # "")
    IN  [k \in 1..Len(blargs) |-> LoadArg("%s", <<>>, <<blargs[k]>>)]

virAppendBootloaderArgs(d) ==
    LET blargs == virStringSplit(d.bootloaderArgs)
    IN  [k \in 1..Len(blargs) |-> LoadArg("%s", <<>>, <<blargs[k]>>)]

virBhyveProcessBuildBhyveloadCmd(d, disk) ==
    IF d.bootloaderArgs = NULL
    THEN LoadCmd(BHYVELOAD,
                 <<LoadArg("-m", <<>>, <<>>),
                   LoadArg("%llu", <<VIR_DIV_UP(d.mem, KIB_PER_MIB)>>, <<>>),
                   LoadArg("-d", <<>>, <<>>),
                   LoadArg("%s", <<>>, <<d.disks[disk].src>>),
                   LoadArg("%s", <<>>, <<d.name>>)>>,
                 disk, <<>>)
    ELSE LoadCmd(BHYVELOAD, virAppendBootloaderArgs(d), disk, <<>>)

virBhyveProcessBuildCustomLoaderCmd(d) ==
    IF d.bootloaderArgs = NULL
    THEN LoadFail(<<>>, Error(VIR_ERR_CONFIG_UNSUPPORTED,
                              "Custom loader requires explicit bootloader_args configuration"))
    ELSE LoadCmd(d.bootloader, virAppendBootloaderArgs(d), 0, <<>>)

virBhyveUsableDisk(disk) ==
    /\ disk.pool_ok
    /\ ~(disk.device # "disk" /\ disk.device # "cdrom")
    /\ ~(disk.type # "file" /\ disk.type # "volume")

\* A device-map line that names every disk hd0.
virBhyveFormatGrubDeviceAlwaysHd(d, k) ==
    [name |-> "hd0", src |-> d.disks[k].src, disk |-> k]

\* "(cd) %s\n" or "(hd0) %s\n"
virBhyveFormatGrubDevice(d, k) ==
    [name |-> IF d.disks[k].device = "cdrom" THEN "cd" ELSE "hd0",
     src |-> d.disks[k].src, disk |-> k]

\* The disk loop of virBhyveProcessBuildGrubbhyveCmd from disk k on; userdef,
\* cd and hdd are indexes into def->disks, 0 being NULL.
RECURSIVE GrubScan(_, _, _, _, _, _)
GrubScan(d, k, userdef, cd, hdd, best_idx) ==
    IF k > Len(d.disks)
    THEN [userdef |-> userdef, cd |-> cd, hdd |-> hdd]
    ELSE IF ~virBhyveUsableDisk(d.disks[k])
    THEN GrubScan(d, k + 1, userdef, cd, hdd, best_idx)
    ELSE IF d.disks[k].bootIndex # 0 /\ d.disks[k].bootIndex < best_idx
    THEN GrubScan(d, k + 1, k, cd, hdd, d.disks[k].bootIndex)
    ELSE GrubScan(d, k + 1, userdef,
                  IF cd = 0 /\ d.disks[k].device = "cdrom" THEN k ELSE cd,
                  IF hdd = 0 /\ d.disks[k].device = "disk" THEN k ELSE hdd,
                  best_idx)

\* wantmap: devicesmap_out != NULL
virBhyveProcessBuildGrubbhyveCmd(d, gcaps, wantmap) ==
    LET f == GrubScan(d, 1, 0, 0, 0, UINT_MAX)
        devicemap ==
            IF ~wantmap THEN <<>>
            ELSE IF f.userdef # 0
            THEN <<virBhyveFormatGrubDevice(d, f.userdef)>>
            ELSE (IF f.hdd # 0 THEN <<virBhyveFormatGrubDevice(d, f.hdd)>>
                  ELSE <<>>)
                 \o (IF f.cd # 0 THEN <<virBhyveFormatGrubDevice(d, f.cd)>>
                     ELSE <<>>)
        root == IF f.userdef # 0
                THEN IF d.disks[f.userdef].device = "cdrom"
                     THEN "cd" ELSE "hd0,msdos1"
                ELSE IF f.cd # 0 THEN "cd" ELSE "hd0,msdos1"
        selected == IF f.userdef # 0 THEN f.userdef
                    ELSE IF f.cd # 0 THEN f.cd ELSE f.hdd
        head == <<LoadArg("--root", <<>>, <<>>),
                  LoadArg("%s", <<>>, <<root>>),
                  LoadArg("--device-map", <<>>, <<>>),
                  LoadArg("%s", <<>>, <<"devmap_file">>),
                  LoadArg("--memory", <<>>, <<>>),
                  LoadArg("%llu", <<VIR_DIV_UP(d.mem, KIB_PER_MIB)>>, <<>>)>>
        name == <<LoadArg("%s", <<>>, <<d.name>>)>>
    IN  IF d.bootloaderArgs # NULL
        THEN virBhyveProcessBuildCustomLoaderCmd(d)
        ELSE IF HasCap(gcaps, "CONSDEV") /\ Len(d.serials) > 0
        THEN IF d.serials[1].type # "nmdm"
             THEN LoadFail(devicemap,
                           Error(VIR_ERR_CONFIG_UNSUPPORTED,
                                 "only nmdm console types are supported"))
             ELSE LoadCmd(d.bootloader,
                          head \o <<LoadArg("--cons-dev", <<>>, <<>>),
                                    LoadArg("%s", <<>>, <<d.serials[1].path>>)>>
                               \o name,
                          selected, devicemap)
        ELSE LoadCmd(d.bootloader, head \o name, selected, devicemap)

\* The loop of lines 962-970 from disk k on: the first usable disk of the
\* requested kind.
RECURSIVE BootDevScan(_, _, _)
BootDevScan(d, k, boot_dev) ==
    IF k > Len(d.disks)
    THEN 0
    ELSE IF ~virBhyveUsableDisk(d.disks[k])
    THEN BootDevScan(d, k + 1, boot_dev)
    ELSE IF d.disks[k].device = boot_dev
    THEN k
    ELSE BootDevScan(d, k + 1, boot_dev)

\* A boot-index loop in which a second marked disk replaces the first
\* instead of being an error.
RECURSIVE BootIndexScanLastMarker(_, _, _, _)
BootIndexScanLastMarker(d, k, match, first_usable_disk_index) ==
    IF k > Len(d.disks)
    THEN [rc |-> 0, match |-> match,
          first_usable_disk_index |-> first_usable_disk_index]
    ELSE IF ~virBhyveUsableDisk(d.disks[k])
    THEN BootIndexScanLastMarker(d, k + 1, match, first_usable_disk_index)
    ELSE IF d.disks[k].bootIndex > 0
    THEN BootIndexScanLastMarker(d, k + 1, k, k)
    ELSE BootIndexScanLastMarker(d, k + 1, match, k)

\* The loop of lines 986-1001 from disk k on.
RECURSIVE BootIndexScan(_, _, _, _)
BootIndexScan(d, k, match, first_usable_disk_index) ==
    IF k > Len(d.disks)
    THEN [rc |-> 0, match |-> match,
          first_usable_disk_index |-> first_usable_disk_index]
    ELSE IF ~virBhyveUsableDisk(d.disks[k])
    THEN BootIndexScan(d, k + 1, match, first_usable_disk_index)
    ELSE IF d.disks[k].bootIndex > 0
    THEN IF match = 0
         THEN BootIndexScan(d, k + 1, k, k)
         ELSE [rc |-> -1, match |-> 0, first_usable_disk_index |-> k]
    ELSE BootIndexScan(d, k + 1, match, k)

\* The disk returned (its index, 0: NULL) and the error reported.
virBhyveGetBootDisk(d) ==
    LET none(msg) == [disk |-> 0,
                      err |-> Error(VIR_ERR_CONFIG_UNSUPPORTED, msg)]
        boot_dev == IF Len(d.bootDevs) = 1 /\ d.bootDevs[1] \in {"cdrom", "disk"}
                    THEN d.bootDevs[1] ELSE NULL
        typed == BootDevScan(d, 1, boot_dev)
        scan == BootIndexScan(d, 1, 0, 0)
    IN  IF Len(d.disks) < 1
        THEN none("Domain should have at least one disk defined")
        ELSE IF Len(d.bootDevs) > 1
        THEN none("Only one boot device is supported")
        ELSE IF Len(d.bootDevs) = 1 /\ boot_dev = NULL
        THEN none("Cannot boot from device")
        ELSE IF boot_dev # NULL
        THEN IF typed = 0
             THEN none("Cannot find boot device of requested type")
             ELSE [disk |-> typed, err |-> NoError]
        ELSE IF scan.rc < 0
        THEN none("Only one boot device is supported")
        ELSE IF scan.match = 0 /\ scan.first_usable_disk_index >= 1
        THEN [disk |-> scan.first_usable_disk_index, err |-> NoError]
        ELSE [disk |-> scan.match, err |-> NoError]

virBhyveProcessBuildLoadCmd(d, gcaps, wantmap) ==
    IF d.bootloader = NULL
    THEN LET disk == virBhyveGetBootDisk(d)
         IN  IF disk.disk = 0
             THEN LoadFail(<<>>, disk.err)
             ELSE virBhyveProcessBuildBhyveloadCmd(d, disk.disk)
    ELSE IF strstr(d.bootloader, "grub-bhyve")
    THEN virBhyveProcessBuildGrubbhyveCmd(d, gcaps, wantmap)
    ELSE virBhyveProcessBuildCustomLoaderCmd(d)

\* Disks as the loader builders see them: kind, backing, boot index.
LoadDiskKinds ==
    { Disk("sata", "disk", "file", "/img/hd0.img", 0, 0, 0),
      Disk("sata", "disk", "file", "/img/hd1.img", 0, 0, 1),
      Disk("virtio", "disk", "volume", "/img/hd2.img", 0, 7, 2),
      Disk("sata", "cdrom", "file", "/img/cd0.iso", 0, 0, 0),
      Disk("sata", "cdrom", "file", "/img/cd1.iso", 0, 0, 1),
      Disk("sata", "cdrom", "file", "/img/cd2.iso", 0, 0, 2),
      Disk("sata", "disk", "block", "/dev/da0", 0, 0, 1),
      Disk("sata", "floppy", "file", "/img/fd0.img", 0, 0, 0),
      Disk("sata", "disk", "volume", NULL, 0, 0, 2) }

LoadScenarios ==
    { [def |-> [Base EXCEPT !.bootloader = b, !.bootloaderArgs = a,
                            !.bootDevs = o, !.disks = ds, !.serials = c.serials],
       grubcaps |-> c.grubcaps] :
        b \in {NULL, "/sbin/grub-bhyve", "/sbin/loader"},
        a \in {NULL, "-m 256 vm0", "-r  cd"},
        o \in {<<>>, <<"cdrom">>, <<"disk">>, <<"network">>, <<"cdrom", "disk">>},
        ds \in Lists(LoadDiskKinds),
        c \in { [serials |-> <<>>, grubcaps |-> {}],
                [serials |-> <<Serial("nmdm", 0, "/dev/nmdm0A")>>,
                 grubcaps |-> {"CONSDEV"}],
                [serials |-> <<Serial("pty", 0, NULL)>>,
                 grubcaps |-> {"CONSDEV"}] } }

InitLoad ==
    /\ \E sc \in LoadScenarios : def = sc.def /\ grubcaps = sc.grubcaps
    /\ caps = AllCaps
    /\ pc = "idle"
    /\ idx = 0
    /\ cmd = <<>>
    /\ dryRun = FALSE
    /\ nusbcontrollers = 0
    /\ nisacontrollers = 0
    /\ err = NoError
    /\ ret = NoReturn
    /\ prev = NoPrev
    /\ nbuilds = 0
    /\ steps = <<>>
    /\ hostlog = <<>>
    /\ taps = {}
    /\ ports = {}
    /\ load = NoLoad

\* The caller invokes virBhyveProcessBuildLoadCmd(driver, def, devmap_file,
\* devicesmap_out), with or without a devicesmap_out.
BuildLoadCmd ==
    /\ ~load.done
    /\ \E wantmap \in BOOLEAN :
         LET r == virBhyveProcessBuildLoadCmd(def, grubcaps, wantmap)
         IN  load' = [f \in DOMAIN NoLoad |->
                         IF f = "wantmap" THEN wantmap ELSE r[f]]
    /\ UNCHANGED <<def, caps, pc, idx, cmd, dryRun, nusbcontrollers,
                   nisacontrollers, err, ret, prev, nbuilds, steps, hostlog,
                   taps, ports, grubcaps>>

NextLoad == BuildLoadCmd

SpecLoad == InitLoad /\ [][NextLoad]_vars

\* ------------------------------------------------------------ properties

Failed == pc = "done" /\ ~ret.ok
Succeeded == pc = "done" /\ ret.ok

\* The structure of an argument: its group, device and format strings,
\* without the values formatted into it.
Shape(a) ==
    [grp |-> a.grp, dev |-> a.dev, fmt |-> a.fmt,
     sub |-> [j \in 1..Len(a.sub) |-> a.sub[j].fmt]]
Shapes(args) == [k \in 1..Len(args) |-> Shape(args[k])]

IsNicEntry(a) == a.grp = "nic" /\ a.fmt # "-s"

\* C1: a dry-run build makes no call into the tap or port subsystems and
\* leaves the host's taps and ports alone; when it succeeds every NIC entry
\* names the interface tap0, and its arguments have the structure of those
\* a successful non-dry-run build of the same definition returns.
C1_DryRunIsPure ==
    /\ (dryRun /\ pc # "idle") => hostlog = <<>>
    /\ (dryRun /\ Succeeded) =>
         \A k \in 1..Len(ret.args) :
             IsNicEntry(ret.args[k]) => ret.args[k].s[2] = "tap0"
    /\ (Succeeded /\ prev.valid /\ prev.ok /\ prev.dry # dryRun) =>
         Shapes(ret.args) = Shapes(prev.args)

C1_Witness ==
    /\ Succeeded /\ dryRun
    /\ prev.valid /\ prev.ok /\ ~prev.dry
    /\ \E k \in 1..Len(ret.args) : IsNicEntry(ret.args[k])
    /\ \E k \in 1..Len(ret.args) : ret.args[k].grp = "graphics"

GroupOrder ==
    <<"cpu", "memory", "features", "clock", "exit", "hostbridge", "bootrom",
      "controller", "nic", "disk", "graphics", "sound", "console", "raw",
      "name">>

Rank(grp) == CHOOSE r \in 1..Len(GroupOrder) : GroupOrder[r] = grp

C3_AbortOnFirstFailure ==
    /\ Failed => (ret.args = <<>> /\ cmd = <<>>)
    /\ \A k \in 1..(Len(steps) - 1) : steps[k].rc = 0
    /\ (steps # <<>> /\ steps[Len(steps)].rc < 0) => pc \in {"error", "done"}
    /\ Succeeded => \A k \in 1..Len(steps) : steps[k].rc = 0
    /\ Failed => (steps # <<>> /\ steps[Len(steps)].rc < 0)

C3_Witness ==
    /\ Failed
    /\ steps[Len(steps)].op = "controller"
    /\ Len(def.controllers) > steps[Len(steps)].dev
    /\ Len(def.nets) > 0 /\ Len(def.sounds) > 0

CreatedTaps(log) ==
    {log[k].name : k \in {j \in 1..Len(log) :
                            log[j].op = "createTap" /\ log[j].rc = 0}}
AcquiredPorts(log) ==
    {log[k].port : k \in {j \in 1..Len(log) :
                            log[j].op = "acquirePort" /\ log[j].rc = 0}}

\* C4: every tap a build created and every port it acquired is still
\* allocated in every later state of the build, its failed return included,
\* and the only calls the build makes into the tap and port subsystems are
\* the five that allocate or query.
C4_NoRollback ==
    /\ CreatedTaps(hostlog) \subseteq IfNames(taps)
    /\ AcquiredPorts(hostlog) \subseteq ports
    /\ \A k \in 1..Len(hostlog) :
         hostlog[k].op \in {"createTap", "resolveRealName", "setInterfaceUp",
                            "acquirePort", "markPortUsed"}

C4_Witness ==
    /\ Failed /\ ~dryRun
    /\ CreatedTaps(hostlog) # {}
    /\ AcquiredPorts(hostlog) # {}

\* The slot:function an argument claims, <<>> when it is no device entry.
EntryAddress(a) ==
    CASE a.fmt = "0:0,hostbridge" -> <<0, 0>>
      [] a.fmt \in {"%d:0,%s,%s,mac=%s", "%d:0,ahci%s", "%d:0,lpc",
                    "%d:0,virtio-blk,%s"} -> <<a.n[1], 0>>
      [] a.fmt \in {"%d:%d,xhci,tablet", "%d:%d,hda%s"} -> <<a.n[1], a.n[2]>>
      [] a.grp = "graphics" /\ a.sub # <<>> -> <<a.sub[1].n[1], a.sub[1].n[2]>>
      [] OTHER -> <<>>

\* The addresses the definition gives its PCI devices, the host bridge first.
DefAddresses(d) ==
    <<<<0, 0>>>>
    \o [k \in 1..Len(d.controllers) |->
          IF d.controllers[k].type \in {"sata", "usb", "isa"}
          THEN <<d.controllers[k].slot, d.controllers[k].function>>
          ELSE <<>>]
    \o [k \in 1..Len(d.nets) |-> <<d.nets[k].slot, d.nets[k].function>>]
    \o [k \in 1..Len(d.disks) |->
          IF d.disks[k].bus = "virtio" THEN <<d.disks[k].slot, 0>> ELSE <<>>]
    \o [k \in 1..Len(d.videos) |-> <<d.videos[k].slot, d.videos[k].function>>]
    \o [k \in 1..Len(d.sounds) |-> <<d.sounds[k].slot, d.sounds[k].function>>]

Distinct(addrs) ==
    \A j, k \in 1..Len(addrs) :
        (j < k /\ addrs[j] # <<>>) => addrs[j] # addrs[k]

\* C5: no two device entries of a returned command carry the same
\* slot:function, and a definition in which two devices share an address
\* does not build.
C5_NoSharedAddress ==
    Succeeded =>
        /\ Distinct([k \in 1..Len(ret.args) |-> EntryAddress(ret.args[k])])
        /\ Distinct(DefAddresses(def))

\* ----------------------------------------------- properties of the loaders

\* The disks a loader may boot from, and those of them with a boot index.
Usable(d) == {k \in 1..Len(d.disks) : virBhyveUsableDisk(d.disks[k])}
Marked(d) == {k \in Usable(d) : d.disks[k].bootIndex > 0}

DirectLoader(d) == d.bootloader = NULL
GrubLoader(d) ==
    /\ d.bootloader # NULL
    /\ strstr(d.bootloader, "grub-bhyve")
    /\ d.bootloaderArgs = NULL

OnlyOneBootDevice ==
    Error(VIR_ERR_CONFIG_UNSUPPORTED, "Only one boot device is supported")

\* The marked disk with the lowest boot index, the first of them in
\* configuration order.
LowestMarked(d) ==
    CHOOSE k \in Marked(d) :
        \A j \in Marked(d) :
            \/ d.disks[k].bootIndex < d.disks[j].bootIndex
            \/ d.disks[k].bootIndex = d.disks[j].bootIndex /\ k <= j

C7_FirstEligibleDisk ==
    (/\ load.done
     /\ DirectLoader(def)
     /\ def.bootDevs = <<>>
     /\ Marked(def) = {}
     /\ Usable(def) # {})
    => /\ load.ok
       /\ load.disk \in Usable(def)
       /\ \A k \in Usable(def) : load.disk <= k

\* --------------------------------------- properties of the device checks

UnsupportedBacking(disk) == disk.type # "file" /\ disk.type # "volume"

\* The SATA disks with an unsupported backing, and those of them that the
\* controller at position c of def->controllers owns.
BadSata(d) ==
    {k \in 1..Len(d.disks) :
        d.disks[k].bus = "sata" /\ UnsupportedBacking(d.disks[k])}
BadSataOf(d, c) ==
    {k \in BadSata(d) :
        /\ d.controllers[c].type = "sata"
        /\ d.disks[k].controller = d.controllers[c].idx}
OwningControllers(d, k) ==
    {c \in 1..Len(d.controllers) : k \in BadSataOf(d, c)}

ControllerArgs(c) ==
    {k \in 1..Len(cmd) : cmd[k].grp = "controller" /\ cmd[k].dev = c}

LastStep == steps[Len(steps)]
FailedAt(op) ==
    /\ pc = "error"
    /\ Len(steps) > 0
    /\ LastStep.op = op
    /\ LastStep.rc < 0

TopologyMismatch(d) ==
    /\ d.cpu.sockets # 0
    /\ \/ d.cpu.dies # 1
       \/ d.vcpus # d.cpu.sockets * d.cpu.cores * d.cpu.threads

\* C9 as claimed: a CPU topology that does not match the vCPU count, or has
\* more than one die, fails the build with neither the -c flag nor its
\* value in the command under construction when the failure is raised.
C9_NoCpuArgumentAtFailure ==
    TopologyMismatch(def)
    => /\ pc = "done" => ~ret.ok
       /\ pc = "error" => \A k \in 1..Len(cmd) : cmd[k].grp # "cpu"

\* C9: a CPU topology that does not match the vCPU count, or has more than
\* one die, fails the build and no command is returned; when the failure
\* is raised the command under construction holds the -c flag alone,
\* without a value.
C9_OnlyFlagAtFailure ==
    TopologyMismatch(def)
    => /\ pc = "done" => ~ret.ok /\ ret.args = <<>>
       /\ pc = "error"
          => /\ cmd = <<Flag("cpu", 0, "-c")>>
             /\ steps = <<Step("cpu", 0, -1)>>
             /\ err.code = VIR_ERR_CONFIG_UNSUPPORTED

C9_Witness ==
    /\ pc = "error"
    /\ TopologyMismatch(def)
    /\ def.cpu.dies = 1
    /\ cmd = <<Flag("cpu", 0, "-c")>>

\* ------------------------------------------- properties of the graphics

GraphicsNeedUEFI ==
    Error(VIR_ERR_CONFIG_UNSUPPORTED,
          "Graphics are only supported when booting using UEFI")

\* No firmware loader, or an external bootloader, or no bootrom capability.
NotFirmwareBooted ==
    \/ def.loader = NULL
    \/ def.bootloader # NULL
    \/ ~HasCap(caps, "LPC_BOOTROM")

StepsOf(ops) == {k \in 1..Len(steps) : steps[k].op \in ops}

C11_DryRunDeterministic ==
    (pc = "done" /\ dryRun /\ prev.valid /\ prev.dry)
    => /\ ret.ok = prev.ok
       /\ ret.args = prev.args

C11_Witness ==
    /\ pc = "done" /\ dryRun /\ prev.valid /\ prev.dry
    /\ ret.ok
    /\ Len(def.nets) = 2
    /\ def.nets[1].ifname = GeneratedTapPattern
    /\ def.nets[2].ifname = "mytap0"
    /\ \E k \in 1..Len(ret.args) : ret.args[k].grp = "graphics"

\* ------------------------------- properties of explicit bootloader arguments

\* The tokens of the argument strings, split by hand on every single space.
ExpectedTokens(s) ==
    CASE s = "-m 256 vm0" -> <<"-m", "256", "vm0">>
      [] s = "-r  cd"     -> <<"-r", "", "cd">>

TokenArgs(s) ==
    [k \in 1..Len(ExpectedTokens(s)) |->
        LoadArg("%s", <<>>, <<ExpectedTokens(s)[k]>>)]

\* C12 as claimed: with an explicit bootloader argument string no loader
\* path searches for a boot disk: whatever the disk list, the loader command
\* is produced, no disk is selected, and its arguments are the tokens of the
\* string, passed to the configured bootloader (bhyveload when none is).
C12_ArgsNeverSearchDisks ==
    (load.done /\ def.bootloaderArgs # NULL)
    => /\ load.ok
       /\ load.disk = 0
       /\ load.path = IF def.bootloader = NULL THEN BHYVELOAD
                      ELSE def.bootloader
       /\ load.args = TokenArgs(def.bootloaderArgs)

\* C12: with an explicit bootloader argument string, a configured
\* bootloader (grub-bhyve or custom) is run with exactly the tokens of the
\* string, whatever the disk list, and no disk is selected; with no
\* bootloader configured the boot-disk search still runs first: the load
\* fails when there is no eligible disk, and when a disk is found bhyveload
\* is run with exactly the tokens of the string.
C12_ArgsSearchOnlyForBhyveload ==
    (load.done /\ def.bootloaderArgs # NULL)
    => /\ def.bootloader # NULL
          => /\ load.ok
             /\ load.disk = 0
             /\ load.devmap = <<>>
             /\ load.path = def.bootloader
             /\ load.args = TokenArgs(def.bootloaderArgs)
       /\ def.bootloader = NULL
          => /\ Usable(def) = {} => ~load.ok
             /\ ~load.ok => load.args = <<>> /\ load.disk = 0
             /\ load.ok => /\ load.disk \in Usable(def)
                           /\ load.path = BHYVELOAD
                           /\ load.args = TokenArgs(def.bootloaderArgs)

C12_Witness ==
    /\ load.done
    /\ def.bootloaderArgs = "-r  cd"
    /\ def.bootloader = NULL
    /\ Len(def.disks) = 2
    /\ load.ok
    /\ load.args = <<LoadArg("%s", <<>>, <<"-r">>), LoadArg("%s", <<>>, <<"">>),
                     LoadArg("%s", <<>>, <<"cd">>)>>

\* ------------------------------------------ properties of capability gating

\* The capability-gated fragments of a command.
HasE1000(args) ==
    \E k \in 1..Len(args) : IsNicEntry(args[k]) /\ args[k].s[1] = "e1000"
HasTopology(args) ==
    \E k \in 1..Len(args) :
        args[k].fmt = "cpus=%d,sockets=%d,cores=%d,threads=%d"
HasUtc(args) == \E k \in 1..Len(args) : args[k].fmt = "-u"
HasBootrom(args) == \E k \in 1..Len(args) : args[k].fmt = "bootrom,%s"
HasFbuf(args) ==
    \E k \in 1..Len(args) :
        \E j \in 1..Len(args[k].sub) : args[k].sub[j].fmt = "%d:%d,fbuf"
HasHda(args) == \E k \in 1..Len(args) : args[k].fmt = "%d:%d,hda%s"

\* Fragments appear in a successful build only with their capability.
FragmentsNeedCaps ==
    Succeeded
    => /\ HasE1000(ret.args) => HasCap(caps, "NET_E1000")
       /\ HasTopology(ret.args) => HasCap(caps, "CPUTOPOLOGY")
       /\ HasUtc(ret.args) => HasCap(caps, "RTC_UTC")
       /\ HasBootrom(ret.args) => HasCap(caps, "LPC_BOOTROM")
       /\ HasFbuf(ret.args) => HasCap(caps, "FBUF")
       /\ HasHda(ret.args) => HasCap(caps, "SOUND_HDA")

\* What the configuration asks for, but for the framebuffer.
RequestsWithoutCap ==
    \/ (\E k \in 1..Len(def.nets) : def.nets[k].model = "e1000")
          /\ ~HasCap(caps, "NET_E1000")
    \/ def.cpu.sockets # 0 /\ ~HasCap(caps, "CPUTOPOLOGY")
    \/ def.clock = "utc" /\ ~HasCap(caps, "RTC_UTC")
    \/ def.bootloader = NULL /\ def.loader # NULL
          /\ ~HasCap(caps, "LPC_BOOTROM")
    \/ Len(def.sounds) > 0 /\ ~HasCap(caps, "SOUND_HDA")

\* C13 as claimed: a gated fragment appears in a successful build only when
\* its capability is set, and a build of a configuration with an e1000 NIC,
\* a CPU topology, a UTC clock, a firmware loader, a graphics device or a
\* sound device fails when the capability of that feature is clear.
C13_EveryRequestWithoutCapFails ==
    /\ FragmentsNeedCaps
    /\ pc = "done"
       => /\ RequestsWithoutCap => ~ret.ok
          /\ (Len(def.graphics) > 0 /\ ~HasCap(caps, "FBUF")) => ~ret.ok

\* C13: a gated fragment appears in a successful build only when its
\* capability is set; a build of a configuration with an e1000 NIC, a CPU
\* topology, a UTC clock, a firmware loader or a sound device fails when the
\* capability of that feature is clear, and a build of a configuration with
\* a graphics device fails on a clear framebuffer capability when it has a
\* video device too; without a video device the graphics device is left out
\* and the framebuffer capability is not looked at.
C13_RequestWithoutCapFails ==
    /\ FragmentsNeedCaps
    /\ pc = "done"
       => /\ RequestsWithoutCap => ~ret.ok
          /\ (Len(def.graphics) > 0 /\ Len(def.videos) > 0
                /\ ~HasCap(caps, "FBUF"))
             => ~ret.ok
          /\ (Len(def.graphics) > 0 /\ Len(def.videos) = 0 /\ ret.ok)
             => ~HasFbuf(ret.args)

C13_Witness ==
    /\ pc = "done"
    /\ ~ret.ok
    /\ Len(def.graphics) = 1 /\ Len(def.videos) = 1
    /\ ~HasCap(caps, "FBUF")
    /\ err = Error(VIR_ERR_CONFIG_UNSUPPORTED,
                   "Bhyve version does not support framebuffer")

\* ------------------------------------------------ properties of the console

ConsoleEntries(args) ==
    {k \in 1..Len(args) : args[k].grp = "console" /\ args[k].fmt = "com%d,%s"}

\* C14: the console formatter looks at the first serial device only, takes
\* only the nmdm transport and only port indices 1 and 2: every console
\* entry of a command names channel com1 or com2 with the first serial
\* device's path, and a build whose first serial device has another
\* transport or another port index fails.
C14_ConsoleCom1OrCom2 ==
    /\ \A k \in ConsoleEntries(cmd) :
          /\ cmd[k].n[1] \in {1, 2}
          /\ def.serials[1].type = "nmdm"
          /\ cmd[k].s = <<def.serials[1].path>>
    /\ (/\ pc = "done"
        /\ Len(def.serials) > 0
        /\ def.serials[1].type # "nmdm" \/ def.serials[1].port \notin {1, 2})
       => ~ret.ok

\* ---------------------------------- properties of the controller cardinality

ControllersOf(d, type) ==
    {k \in 1..Len(d.controllers) : d.controllers[k].type = type}
Second(S) == CHOOSE k \in S : Cardinality({j \in S : j < k}) = 1
EntriesOf(args, fmt) == {k \in 1..Len(args) : args[k].fmt = fmt}

OnlySingle(type) ==
    Error(VIR_ERR_CONFIG_UNSUPPORTED,
          IF type = "usb" THEN "only single USB controller is supported"
          ELSE "only single ISA controller is supported")

\* A build of a definition with two controllers of the type fails, it runs
\* no formatter after that of the second one, and the second one is refused.
SecondControllerFails(type) ==
    (pc = "done" /\ Cardinality(ControllersOf(def, type)) >= 2)
    => /\ ~ret.ok
       /\ StepsOf({"net", "disk", "graphics", "multigraphics", "sound",
                   "console"}) = {}
       /\ LastStep.op = "controller" /\ LastStep.rc < 0
       /\ LastStep.dev <= Second(ControllersOf(def, type))
       /\ LastStep.dev = Second(ControllersOf(def, type))
          => err = OnlySingle(type)

\* C15: a successful build's command has at most one xhci entry and at most
\* one lpc entry, a build with a second USB or ISA controller fails at that
\* controller at the latest, and an xhci entry is in a command only when the
\* definition has exactly one input device and it is a USB tablet.
C15_ControllerCardinality ==
    /\ Succeeded
       => /\ Cardinality(EntriesOf(ret.args, "%d:%d,xhci,tablet")) <= 1
          /\ Cardinality(EntriesOf(ret.args, "%d:0,lpc")) <= 1
    /\ SecondControllerFails("usb")
    /\ SecondControllerFails("isa")
    /\ EntriesOf(cmd, "%d:%d,xhci,tablet") # {}
       => def.inputs = <<Input("usb", "tablet")>>

C15_Witness ==
    /\ pc = "done"
    /\ def.controllers = <<Usb, Usb>>
    /\ def.inputs = <<Input("usb", "tablet")>>
    /\ LastStep = Step("controller", 2, -1)
    /\ err = OnlySingle("usb")

\* ------------------------------------ properties of the host calls of a NIC

NicOps == <<"createTap", "resolveRealName", "setInterfaceUp">>

\* The calls the build made into the host for the NIC, in the order made.
NicLog(dev) ==
    SelectSeq(hostlog,
              LAMBDA h : h.dev = dev /\ \E j \in 1..Len(NicOps) : h.op = NicOps[j])

NicEntries(args, dev) ==
    {k \in 1..Len(args) : IsNicEntry(args[k]) /\ args[k].dev = dev}
NetSteps(dev, rcs) ==
    {k \in 1..Len(steps) :
        steps[k].op = "net" /\ steps[k].dev = dev /\ steps[k].rc \in rcs}

NicChecksPass(net) ==
    /\ net.model \in {"virtio", "e1000"}
    /\ net.model = "e1000" => HasCap(caps, "NET_E1000")
    /\ net.type = "bridge"

\* C16: in a build that is no dry run the host calls of each NIC are a
\* prefix of create-tap-in-bridge, resolve-real-name, set-interface-up, each
\* made once at most and only after the one before it succeeded, and none
\* unless the NIC's model and bridge-type checks passed; the NIC's argument
\* is in the command only after all three succeeded, and when one of them
\* failed the NIC step failed and the command has no argument of the NIC.
C16_NicHostCallOrder ==
    (~dryRun /\ pc # "idle")
    => \A dev \in 1..Len(def.nets) :
         LET log == NicLog(dev)
         IN  /\ Len(log) <= Len(NicOps)
             /\ \A k \in 1..Len(log) :
                   /\ log[k].op = NicOps[k]
                   /\ k < Len(log) => log[k].rc = 0
             /\ log # <<>> => NicChecksPass(def.nets[dev])
             /\ NicEntries(cmd, dev) # {}
                => /\ Len(log) = Len(NicOps)
                   /\ \A k \in 1..Len(log) : log[k].rc = 0
                   /\ NetSteps(dev, {0}) # {}
             /\ NetSteps(dev, {0}) # {}
                => Len(log) = Len(NicOps) /\ log[Len(log)].rc = 0
             /\ (\E k \in 1..Len(log) : log[k].rc # 0)
                => /\ NetSteps(dev, {-1}) # {}
                   /\ NicEntries(cmd, dev) = {}
                   /\ pc \in {"error", "done"}
                   /\ pc = "done" => ~ret.ok

C16_Witness ==
    /\ pc = "done" /\ ~dryRun /\ ~ret.ok
    /\ Len(def.nets) = 2
    /\ [k \in 1..Len(hostlog) |-> <<hostlog[k].op, hostlog[k].dev, hostlog[k].rc = 0>>]
         = << <<"createTap", 1, TRUE>>, <<"resolveRealName", 1, TRUE>>,
              <<"setInterfaceUp", 1, TRUE>>, <<"createTap", 2, TRUE>>,
              <<"resolveRealName", 2, TRUE>>, <<"setInterfaceUp", 2, FALSE>> >>

\* ------------------------------------- properties of the grub-bhyve loader

\* The device the --root argument of a grub-bhyve command names.
RootDevice(args) == IF args[2].s[1] = "cd" THEN "cd" ELSE "hd0"
RootLines(args, devmap) ==
    {k \in 1..Len(devmap) : devmap[k].name = RootDevice(args)}

\* The disk grub-bhyve is to boot: the marked eligible disk of lowest boot
\* index, else the first eligible cdrom, else the first eligible disk.
FirstOf(S) == CHOOSE k \in S : \A j \in S : k <= j
GrubBootDisk(d) ==
    LET cds == {k \in Usable(d) : d.disks[k].device = "cdrom"}
    IN  IF Marked(d) # {} THEN LowestMarked(d)
        ELSE IF cds # {} THEN FirstOf(cds)
        ELSE FirstOf(Usable(d))

GrubWithMap ==
    /\ load.done /\ load.ok
    /\ load.wantmap
    /\ GrubLoader(def)

\* C17 as claimed: whenever grub-bhyve without explicit arguments gets a
\* loader command and the caller is handed a device map, the device the
\* --root argument names has a line in the map, and the line gives the
\* source path of the selected boot disk.
C17_RootAlwaysMapped ==
    GrubWithMap
    => /\ load.args[1].fmt = "--root"
       /\ RootLines(load.args, load.devmap) # {}
       /\ \A k \in RootLines(load.args, load.devmap) :
             /\ load.disk # 0
             /\ load.devmap[k].src = def.disks[load.disk].src

\* C17: when grub-bhyve without explicit arguments gets a loader command
\* and the caller is handed a device map, then with an eligible disk in the
\* definition the device the --root argument names has exactly one line in
\* the map, the line gives the source path of the selected boot disk, and
\* that disk is the marked one of lowest boot index, else the first cdrom,
\* else the first disk; with no eligible disk the command names the root
\* hd0,msdos1, the map is empty and no disk is selected.
C17_RootMappedWhenDiskEligible ==
    GrubWithMap
    => /\ load.args[1].fmt = "--root"
       /\ IF Usable(def) = {}
          THEN /\ load.args[2].s = <<"hd0,msdos1">>
               /\ load.devmap = <<>>
               /\ load.disk = 0
          ELSE /\ Cardinality(RootLines(load.args, load.devmap)) = 1
               /\ load.disk = GrubBootDisk(def)
               /\ \A k \in RootLines(load.args, load.devmap) :
                     load.devmap[k].src = def.disks[load.disk].src

C17_Witness ==
    /\ GrubWithMap
    /\ Marked(def) = {}
    /\ Len(load.devmap) = 2
    /\ load.devmap[1].name = "hd0" /\ load.devmap[2].name = "cd"
    /\ load.args[2].s = <<"cd">>
    /\ load.disk = 2
    /\ load.devmap[2].src = "/img/cd0.iso"

\* ------------------------------------ properties of the disks of a command

\* The virtio-blk entries of the disk, and its sub-fragments inside AHCI
\* controller entries, each with the entry it is in.
VirtioEntries(args, k) ==
    {a \in 1..Len(args) :
        args[a].fmt = "%d:0,virtio-blk,%s" /\ args[a].dev = k}
AhciFragments(args, k) ==
    {p \in (1..Len(args)) \X (1..Len(def.disks)) :
        /\ args[p[1]].fmt = "%d:0,ahci%s"
        /\ p[2] <= Len(args[p[1]].sub)
        /\ args[p[1]].sub[p[2]].dev = k}

\* The configured SATA controllers whose index the disk names.
SataControllersOf(d, k) ==
    {c \in 1..Len(d.controllers) :
        /\ d.controllers[c].type = "sata"
        /\ d.controllers[c].idx = d.disks[k].controller}

\* C18 as claimed: in a successful build every virtio disk has exactly one
\* virtio-blk entry and every SATA disk exactly one sub-fragment in exactly
\* one AHCI controller entry; no disk is left out.
C18_EveryDiskOnce ==
    Succeeded
    => \A k \in 1..Len(def.disks) :
         /\ def.disks[k].bus \in {"virtio", "sata"}
         /\ def.disks[k].bus = "virtio"
            => Cardinality(VirtioEntries(ret.args, k)) = 1
         /\ def.disks[k].bus = "sata"
            => Cardinality(AhciFragments(ret.args, k)) = 1

\* C18: in a successful build every virtio disk has exactly one virtio-blk
\* entry, with its source, and no AHCI sub-fragment; every SATA disk has no
\* virtio-blk entry and one sub-fragment, with its source, in the AHCI entry
\* of each configured SATA controller whose index it names, and in no other:
\* a SATA disk that names the index of no configured SATA controller is
\* left out of the command.
C18_SataDiskOncePerOwningController ==
    Succeeded
    => \A k \in 1..Len(def.disks) :
         /\ def.disks[k].bus \in {"virtio", "sata"}
         /\ def.disks[k].bus = "virtio"
            => /\ Cardinality(VirtioEntries(ret.args, k)) = 1
               /\ \A a \in VirtioEntries(ret.args, k) :
                     ret.args[a].s = <<def.disks[k].src>>
               /\ AhciFragments(ret.args, k) = {}
         /\ def.disks[k].bus = "sata"
            => /\ VirtioEntries(ret.args, k) = {}
               /\ {ret.args[p[1]].dev : p \in AhciFragments(ret.args, k)}
                     = SataControllersOf(def, k)
               /\ Cardinality(AhciFragments(ret.args, k))
                     = Cardinality(SataControllersOf(def, k))
               /\ \A p \in AhciFragments(ret.args, k) :
                     ret.args[p[1]].sub[p[2]].s = <<def.disks[k].src>>

C18_Witness ==
    /\ Succeeded
    /\ [k \in 1..Len(def.controllers) |-> def.controllers[k].type] = <<"sata">>
    /\ Len(def.disks) = 2
    /\ def.disks[1].bus = "sata" /\ def.disks[2].bus = "sata"
    /\ Cardinality(AhciFragments(ret.args, 1)) = 1
    /\ SataControllersOf(def, 2) = {}
    /\ AhciFragments(ret.args, 2) = {}

====
